---- MODULE Spec2Model ----
(***************************************************************************)
(* Model of the DaietsuAPI server library (src/unnamed/part_000 and        *)
(* src/server-lib.js): the validate-then-call facade, the two transport    *)
(* primitives _app_post/_app_get and the webhook verifier.                 *)
(*                                                                         *)
(* JavaScript values are tagged records [t |-> type, v |-> payload].       *)
(* A JavaScript string is a sequence of atoms; an atom is one character    *)
(* ("a", ",", "5") or an indivisible word of ordinary letters              *)
(* ("MISSING_TOKEN", "Bearer "), used for the literals of the source.      *)
(* A number is the triple <<sign, digits, p>> standing for                 *)
(* sign * 0.digits * 10^p, the shortest decimal that denotes the double.   *)
(***************************************************************************)
EXTENDS Integers, Sequences, FiniteSets

----------------------------------------------------------------------------
(* JavaScript values                                                       *)

Abs(n) == IF n < 0 THEN -n ELSE n

\* The one element of a singleton set.  {F(v) : v \in {e}} evaluates e once
\* and binds v to its value.
Only(S) == CHOOSE r \in S : TRUE

\* The decimal digits of a natural number, most significant first; none
\* for zero.
RECURSIVE IntDigits(_)
IntDigits(n) == IF n = 0 THEN <<>> ELSE IntDigits(n \div 10) \o <<n % 10>>

\* m / 10^e with the trailing zeros of m removed.
RECURSIVE Normalize(_, _)
Normalize(m, e) ==
    IF m = 0 THEN <<0, 0>>
    ELSE IF m % 10 = 0 THEN Normalize(m \div 10, e - 1)
    ELSE <<m, e>>

\* The number m / 10^e as <<sign, digits, p>>: sign is 1, -1 or 0, digits
\* has neither leading nor trailing zeros, and the value is
\* sign * 0.digits * 10^p (so 10 is <<1, <<1>>, 2>>, 0.05 is <<1, <<5>>, -1>>
\* and zero is <<0, <<>>, 0>>).
Decimal(m, e) ==
    LET z == Normalize(m, e)
        d == IntDigits(Abs(z[1]))
    IN  IF z[1] = 0 THEN <<0, <<>>, 0>>
        ELSE <<IF z[1] < 0 THEN -1 ELSE 1, d, Len(d) - z[2]>>

UNDEFINED == [t |-> "undefined", v |-> <<>>]
NULL == [t |-> "null", v |-> <<>>]
NaN == [t |-> "NaN", v |-> <<>>]
\* Infinity and -Infinity; the payload is 1 or -1, the number of the same
\* sign, so that a comparison with a finite bound reads it like any number.
Infinity == [t |-> "Infinity", v |-> Decimal(1, 0)]
NegInfinity == [t |-> "Infinity", v |-> Decimal(-1, 0)]
JStr(s) == [t |-> "string", v |-> s]
\* The number written m / 10^e in the source, for a literal of at most
\* 9 digits.
JNum(m, e) == [t |-> "number", v |-> Decimal(m, e)]
\* The exception of a conversion to a primitive that found no callable
\* toString or valueOf.
TypeError == [t |-> "TypeError", v |-> <<"Cannot convert object to primitive value">>]
JBool(b) == [t |-> "boolean", v |-> <<b>>]
JArr(xs) == [t |-> "array", v |-> xs]
JObj(kvs) == [t |-> "object", v |-> kvs]

\* A default parameter value (x = dflt) replaces undefined only.
Default(x, dflt) == IF x = UNDEFINED THEN dflt ELSE x

\* ToBoolean, as used by !x, x ? a : b and a || b.
Truthy(x) ==
    CASE x.t = "undefined" -> FALSE
      [] x.t = "null" -> FALSE
      [] x.t = "NaN" -> FALSE
      [] x.t = "Infinity" -> TRUE
      [] x.t = "string" -> x.v # <<>>
      [] x.t = "number" -> x.v[1] # 0
      [] x.t = "boolean" -> x.v[1]
      [] OTHER -> TRUE

\* typeof x == "string"
TypeofString(x) == x.t = "string"

\* Array.isArray(x)
IsArray(x) == x.t = "array"

----------------------------------------------------------------------------
(* Characters                                                              *)

\* The one-character atoms.  A printable ASCII character is written as
\* itself (the grave accent as "U+0060"); tab, line feed, form feed and
\* carriage return as "\t", "\n", "\f", "\r"; any other character of the
\* Basic Multilingual Plane by the name "U+XXXX" of its code point, listed
\* in NamedChars.  Strings hold no surrogate code units.
Printable ==
    <<" ", "!", "\"", "#", "$", "%", "&", "'", "(", ")", "*", "+", ",", "-", ".", "/",
      "0", "1", "2", "3", "4", "5", "6", "7", "8", "9", ":", ";", "<", "=", ">", "?",
      "@", "A", "B", "C", "D", "E", "F", "G", "H", "I", "J", "K", "L", "M", "N", "O",
      "P", "Q", "R", "S", "T", "U", "V", "W", "X", "Y", "Z", "[", "\\", "]", "^", "_",
      "U+0060", "a", "b", "c", "d", "e", "f", "g", "h", "i", "j", "k", "l", "m", "n", "o",
      "p", "q", "r", "s", "t", "u", "v", "w", "x", "y", "z", "{", "|", "}", "~">>

NamedChars ==
    << <<"U+0000", 0>>, <<"U+0001", 1>>, <<"U+0002", 2>>, <<"U+0003", 3>>,
       <<"U+0004", 4>>, <<"U+0005", 5>>, <<"U+0006", 6>>, <<"U+0007", 7>>,
       <<"U+0008", 8>>, <<"U+000B", 11>>, <<"U+000E", 14>>, <<"U+000F", 15>>,
       <<"U+0010", 16>>, <<"U+0011", 17>>, <<"U+0012", 18>>,
       <<"U+0013", 19>>, <<"U+0014", 20>>, <<"U+0015", 21>>,
       <<"U+0016", 22>>, <<"U+0017", 23>>, <<"U+0018", 24>>,
       <<"U+0019", 25>>, <<"U+001A", 26>>, <<"U+001B", 27>>,
       <<"U+001C", 28>>, <<"U+001D", 29>>, <<"U+001E", 30>>,
       <<"U+001F", 31>>, <<"U+007F", 127>>, <<"U+00A0", 160>>,
       <<"U+00E9", 233>>, <<"U+1680", 5760>>, <<"U+2000", 8192>>,
       <<"U+2001", 8193>>, <<"U+2002", 8194>>, <<"U+2003", 8195>>,
       <<"U+2004", 8196>>, <<"U+2005", 8197>>, <<"U+2006", 8198>>,
       <<"U+2007", 8199>>, <<"U+2008", 8200>>, <<"U+2009", 8201>>,
       <<"U+200A", 8202>>, <<"U+2028", 8232>>, <<"U+2029", 8233>>,
       <<"U+202F", 8239>>, <<"U+205F", 8287>>, <<"U+20AC", 8364>>,
       <<"U+3000", 12288>>, <<"U+FEFF", 65279>> >>

\* The code point of a one-character atom; -1 for a word atom, which stands
\* for a run of letters, digits and underscores.
CodePoint(c) ==
    IF \E i \in 1..Len(Printable) : Printable[i] = c
    THEN 31 + (CHOOSE i \in 1..Len(Printable) : Printable[i] = c)
    ELSE IF c = "\t" THEN 9
    ELSE IF c = "\n" THEN 10
    ELSE IF c = "\f" THEN 12
    ELSE IF c = "\r" THEN 13
    ELSE IF \E i \in 1..Len(NamedChars) : NamedChars[i][1] = c
    THEN NamedChars[CHOOSE i \in 1..Len(NamedChars) : NamedChars[i][1] = c][2]
    ELSE -1

UpperHex == <<"0", "1", "2", "3", "4", "5", "6", "7", "8", "9", "A", "B", "C", "D", "E", "F">>
LowerHex == <<"0", "1", "2", "3", "4", "5", "6", "7", "8", "9", "a", "b", "c", "d", "e", "f">>

----------------------------------------------------------------------------
(* Numbers and their decimal text                                          *)

DigitChars == <<"0", "1", "2", "3", "4", "5", "6", "7", "8", "9">>
IsDigit(c) == \E d \in 1..10 : DigitChars[d] = c
DigitVal(c) == (CHOOSE d \in 1..10 : DigitChars[d] = c) - 1

\* The decimal digits of a natural number.
RECURSIVE NatDigits(_)
NatDigits(n) ==
    IF n < 10 THEN <<DigitChars[n + 1]>>
    ELSE NatDigits(n \div 10) \o <<DigitChars[(n % 10) + 1]>>

\* The digits of n, left-padded with zeros to width w.
RECURSIVE PadDigits(_, _)
PadDigits(n, w) ==
    IF w <= 0 THEN <<>>
    ELSE PadDigits(n \div 10, w - 1) \o <<DigitChars[(n % 10) + 1]>>

\* Number::toString(x) for a finite x, radix 10.  With k significant
\* digits d and x = 0.d * 10^p: plain digits for k <= p <= 21, a decimal
\* point inside the digits for 0 < p <= 21, "0." and -p zeros for
\* -6 < p <= 0, and exponent notation otherwise.
NumToString(n) ==
    LET d == [i \in 1..Len(n[2]) |-> DigitChars[n[2][i] + 1]]
        k == Len(d)
        p == n[3]
    IN  IF n[1] = 0 THEN <<"0">>
        ELSE (IF n[1] < 0 THEN <<"-">> ELSE <<>>)
             \o (IF k <= p /\ p <= 21 THEN d \o PadDigits(0, p - k)
                 ELSE IF 0 < p /\ p <= 21
                      THEN SubSeq(d, 1, p) \o <<".">> \o SubSeq(d, p + 1, k)
                 ELSE IF -6 < p /\ p <= 0 THEN <<"0", ".">> \o PadDigits(0, -p) \o d
                 ELSE <<d[1]>> \o (IF k > 1 THEN <<".">> \o SubSeq(d, 2, k) ELSE <<>>)
                      \o <<"e", IF p - 1 < 0 THEN "-" ELSE "+">>
                      \o NatDigits(Abs(p - 1)))

\* x < 0.5 for x = sign * 0.digits * 10^p (or the payload of an
\* infinity): x is negative or zero, or below 0.1, or 0.d... with a first
\* digit below 5.
LessThanHalf(n) ==
    n[1] <= 0 \/ n[3] < 0 \/ (n[3] = 0 /\ n[2][1] < 5)

----------------------------------------------------------------------------
(* Strings                                                                 *)

\* The property name toString, in one-character atoms or as one word.
IsToStringKey(key) ==
    key = <<"toString">> \/ key = <<"t", "o", "S", "t", "r", "i", "n", "g">>

\* ToPrimitive(x) throws a TypeError: x is the exception of an earlier
\* conversion; or an object with an own property toString, which hides
\* Object.prototype.toString and, holding data, cannot be called, while
\* the inherited valueOf returns the object itself; or an array, whose
\* toString is join, with such an element other than undefined and null.
RECURSIVE ToPrimitiveThrows(_)
ToPrimitiveThrows(x) ==
    CASE x.t = "TypeError" -> TRUE
      [] x.t = "object" -> \E i \in 1..Len(x.v) : IsToStringKey(x.v[i][1])
      [] x.t = "array" -> \E i \in 1..Len(x.v) :
                              /\ x.v[i].t \notin {"undefined", "null"}
                              /\ ToPrimitiveThrows(x.v[i])
      [] OTHER -> FALSE

\* Array.prototype.join and ToString are mutually recursive on arrays.
\* The elements xs[i..] joined by sep, or the TypeError one of them throws.
RECURSIVE ToStr(_)
RECURSIVE JoinFrom(_, _, _)
JoinFrom(xs, sep, i) ==
    IF ToPrimitiveThrows(JArr(SubSeq(xs, i, Len(xs)))) THEN TypeError
    ELSE IF i > Len(xs) THEN <<>>
    ELSE (IF i > 1 THEN sep ELSE <<>>)
         \o (IF xs[i].t \in {"undefined", "null"} THEN <<>> ELSE ToStr(xs[i]))
         \o JoinFrom(xs, sep, i + 1)

\* ToString(x), as applied by template literals, join, parseFloat and
\* encodeURIComponent: the text, or the TypeError the conversion throws.
ToStr(x) ==
    IF ToPrimitiveThrows(x) THEN TypeError
    ELSE CASE x.t = "string" -> x.v
      [] x.t = "number" -> NumToString(x.v)
      [] x.t = "NaN" -> <<"N", "a", "N">>
      [] x.t = "Infinity" -> (IF x.v[1] < 0 THEN <<"-">> ELSE <<>>)
                             \o <<"I", "n", "f", "i", "n", "i", "t", "y">>
      [] x.t = "null" -> <<"n", "u", "l", "l">>
      [] x.t = "undefined" -> <<"u", "n", "d", "e", "f", "i", "n", "e", "d">>
      [] x.t = "boolean" -> IF x.v[1] THEN <<"t", "r", "u", "e">>
                            ELSE <<"f", "a", "l", "s", "e">>
      [] x.t = "array" -> JoinFrom(x.v, <<",">>, 1)
      [] OTHER -> <<"[", "o", "b", "j", "e", "c", "t", " ",
                    "O", "b", "j", "e", "c", "t", "]">>

\* xs.join(sep) for a JavaScript array xs: the text, or the TypeError.
Join(xs, sep) == JoinFrom(xs.v, sep, 1)

\* a + b where one operand is a string: the concatenation, a string, or
\* the TypeError thrown by the conversion of the other operand.
Plus(a, b) ==
    IF ToPrimitiveThrows(a) \/ ToPrimitiveThrows(b) THEN TypeError
    ELSE JStr(ToStr(a) \o ToStr(b))

\* The index of the first occurrence of c in s at or after i, 0 if none.
RECURSIVE IndexOf(_, _, _)
IndexOf(s, c, i) ==
    IF i > Len(s) THEN 0
    ELSE IF s[i] = c THEN i
    ELSE IndexOf(s, c, i + 1)

\* s.split(c) for a one-character separator: an array of strings, never
\* empty ("".split(",") is [""]).
RECURSIVE SplitSeq(_, _)
SplitSeq(s, c) ==
    LET k == IndexOf(s, c, 1)
    IN  IF k = 0 THEN <<JStr(s)>>
        ELSE <<JStr(SubSeq(s, 1, k - 1))>> \o SplitSeq(SubSeq(s, k + 1, Len(s)), c)

Split(s, c) == JArr(SplitSeq(s, c))

----------------------------------------------------------------------------
(* parseFloat                                                              *)

\* StrWhiteSpaceChar: WhiteSpace (tab, vertical tab, form feed, space,
\* no-break space, zero width no-break space, the space separators) and
\* LineTerminator (line feed, carriage return, line and paragraph separator).
IsWhiteSpace(c) ==
    CodePoint(c) \in {9, 10, 11, 12, 13, 32, 160, 5760, 8232, 8233, 8239, 8287,
                      12288, 65279} \cup (8192..8202)

\* The first index at or after i that holds no white space.
RECURSIVE SkipWhiteSpace(_, _)
SkipWhiteSpace(s, i) ==
    IF i <= Len(s) /\ IsWhiteSpace(s[i]) THEN SkipWhiteSpace(s, i + 1) ELSE i

\* The first index at or after i that holds no decimal digit.
RECURSIVE DigitsEnd(_, _)
DigitsEnd(s, i) ==
    IF i <= Len(s) /\ IsDigit(s[i]) THEN DigitsEnd(s, i + 1) ELSE i

\* The value of the digits s[i..j-1], appended to acc.
RECURSIVE DigitsValue(_, _, _, _)
DigitsValue(s, i, j, acc) ==
    IF i >= j THEN acc ELSE DigitsValue(s, i + 1, j, acc * 10 + DigitVal(s[i]))

\* The exponent part at s[end..]: e or E, an optional sign and at least one
\* digit give the signed exponent, anything else gives 0.  An exponent of
\* more than six digits is beyond every double and is read as 10^6.
ParseExponent(s, end) ==
    IF ~(end <= Len(s) /\ s[end] \in {"e", "E"}) THEN 0
    ELSE LET eSign == end + 1 <= Len(s) /\ s[end + 1] \in {"+", "-"}
             j1 == IF eSign THEN end + 2 ELSE end + 1
             j2 == DigitsEnd(s, j1)
             j0 == CHOOSE j \in j1..j2 :
                       /\ j = j2 \/ s[j] # "0"
                       /\ \A i \in j1..(j - 1) : s[i] = "0"
         IN  (IF eSign /\ s[end + 1] = "-" THEN -1 ELSE 1)
             * (IF j2 - j0 > 6 THEN 1000000 ELSE DigitsValue(s, j0, j2, 0))

\* a >= b for digit sequences read as the fractions 0.a and 0.b.
RECURSIVE DigitsAtLeast(_, _, _)
DigitsAtLeast(a, b, i) ==
    IF i > Len(b) THEN TRUE
    ELSE IF i > Len(a) THEN \A j \in i..Len(b) : b[j] = "0"
    ELSE IF a[i] # b[i] THEN DigitVal(a[i]) > DigitVal(b[i])
    ELSE DigitsAtLeast(a, b, i + 1)

----------------------------------------------------------------------------
(* Doubles: the nearest double of a decimal and its shortest decimal      *)

\* Naturals of any size are sequences of decimal digits 0..9, most
\* significant first.

Zeros(n) == [i \in 1..n |-> 0]
AllZero(a) == \A i \in 1..Len(a) : a[i] = 0

\* a without its leading zeros / its trailing zeros.
StripLeading(a) ==
    IF AllZero(a) THEN <<>>
    ELSE SubSeq(a, CHOOSE i \in 1..Len(a) : a[i] # 0 /\ \A j \in 1..(i - 1) : a[j] = 0, Len(a))
StripTrailing(a) ==
    IF AllZero(a) THEN <<>>
    ELSE SubSeq(a, 1, CHOOSE i \in 1..Len(a) : a[i] # 0 /\ \A j \in (i + 1)..Len(a) : a[j] = 0)

\* a < b for digit sequences of naturals without leading zeros.
DigitsLess(a, b) ==
    \/ Len(a) < Len(b)
    \/ /\ Len(a) = Len(b)
       /\ \E i \in 1..Len(a) : a[i] < b[i] /\ \A j \in 1..(i - 1) : a[j] = b[j]

\* The digits lo..hi of a * k + c and the carry out of them, for
\* 0 <= k, c such that 9 * k + c fits the integers.
RECURSIVE MulAddRange(_, _, _, _, _)
MulAddRange(a, lo, hi, k, c) ==
    IF lo > hi THEN <<<<>>, c>>
    ELSE IF lo = hi THEN << <<(a[lo] * k + c) % 10>>, (a[lo] * k + c) \div 10 >>
    ELSE Only({ Only({ <<l[1] \o r[1], l[2]>> :
                       l \in {MulAddRange(a, lo, (lo + hi) \div 2, k, r[2])} }) :
                r \in {MulAddRange(a, ((lo + hi) \div 2) + 1, hi, k, c)} })

\* a * k + c
MulAdd(a, k, c) ==
    Only({ IntDigits(r[2]) \o r[1] : r \in {MulAddRange(a, 1, Len(a), k, c)} })

RECURSIVE IntPow(_, _)
IntPow(b, n) == IF n = 0 THEN 1 ELSE b * IntPow(b, n - 1)

\* a * base^n, by factors base^chunk that fit the integers.
RECURSIVE TimesPow(_, _, _, _)
TimesPow(a, base, chunk, n) ==
    IF n <= chunk THEN MulAdd(a, IntPow(base, n), 0)
    ELSE Only({ TimesPow(b, base, chunk, n - (n \div 2)) :
                b \in {TimesPow(a, base, chunk, n \div 2)} })
TimesPow2(a, n) == TimesPow(a, 2, 27, n)
TimesPow5(a, n) == TimesPow(a, 5, 11, n)

\* a - 1 for a >= 1.
Decrement(a) ==
    LET i == CHOOSE i \in 1..Len(a) : a[i] # 0 /\ \A j \in (i + 1)..Len(a) : a[j] = 0
    IN  StripLeading([j \in 1..Len(a) |-> IF j < i THEN a[j] ELSE IF j = i THEN a[j] - 1 ELSE 9])

\* The quotient digits and the remainder of a divided by a small k.
RECURSIVE DivSmallFrom(_, _, _, _, _)
DivSmallFrom(a, i, k, q, r) ==
    IF i > Len(a) THEN <<StripLeading(q), r>>
    ELSE DivSmallFrom(a, i + 1, k, Append(q, (r * 10 + a[i]) \div k), (r * 10 + a[i]) % k)
DivSmall(a, k) == DivSmallFrom(a, 1, k, <<>>, 0)

TwoTo52 == <<4, 5, 0, 3, 5, 9, 9, 6, 2, 7, 3, 7, 0, 4, 9, 6>>
TwoTo53 == <<9, 0, 0, 7, 1, 9, 9, 2, 5, 4, 7, 4, 0, 9, 9, 2>>

\* 0.f compared with one half: -1 below, 0 equal, 1 above.
CompareHalf(f) ==
    IF f = <<>> THEN -1
    ELSE IF f[1] < 5 THEN -1
    ELSE IF f[1] > 5 THEN 1
    ELSE IF AllZero(SubSeq(f, 2, Len(f))) THEN 0 ELSE 1

IsOdd(a) == a # <<>> /\ a[Len(a)] % 2 = 1

\* The integer nearest to (i + 0.f) / 2^s, ties to even.
RoundShift(i, f, s) ==
    Only({ LET q == d[1]
               r == d[2]
               h == IntPow(2, s) \div 2
               c == IF s = 0 THEN (IF AllZero(f) THEN -1 ELSE CompareHalf(f))
                    ELSE IF r < h THEN -1
                    ELSE IF r > h THEN 1
                    ELSE IF AllZero(f) THEN 0 ELSE 1
           IN  IF c > 0 \/ (c = 0 /\ IsOdd(q)) THEN MulAdd(q, 1, 1) ELSE q :
           d \in {DivSmall(i, IntPow(2, s))} })

\* The significand n and the exponent b of the double n * 2^b nearest to
\* d * 10^x (d without leading zeros, not empty): 2^52 <= n < 2^53, or
\* b = -1074 and n < 2^52 (a subnormal or zero), or b > 971 (beyond the
\* largest double).
DoubleParts(d, x) ==
    LET p == Len(d) + x
        bs == (((p - 1) * 3321928) \div 1000000) - 53
        b0 == IF bs < -1074 THEN -1074 ELSE bs
        y == IF b0 < 0 THEN x ELSE x - b0
    IN  Only({ LET cut == Len(m) + y
                   i == IF y >= 0 THEN m \o Zeros(y)
                        ELSE IF cut <= 0 THEN <<>> ELSE SubSeq(m, 1, cut)
                   f == IF y >= 0 THEN <<>>
                        ELSE IF cut <= 0 THEN Zeros(-cut) \o m
                        ELSE SubSeq(m, cut + 1, Len(m))
                   s == CHOOSE s \in 0..7 :
                            /\ DigitsLess(i, MulAdd(TwoTo53, IntPow(2, s), 0))
                            /\ s > 0 => ~DigitsLess(i, MulAdd(TwoTo53, IntPow(2, s - 1), 0))
               IN  Only({ IF n = TwoTo53 THEN <<TwoTo52, b0 + s + 1>> ELSE <<n, b0 + s>> :
                          n \in {RoundShift(i, f, s)} }) :
               m \in {IF b0 < 0 THEN TimesPow2(d, -b0) ELSE TimesPow5(d, b0)} })

\* The shortest decimal that rounds to the double n * 2^b (n >= 1), the
\* closest to it when there are several, as <<digits, p>> for 0.digits * 10^p.
ShortestDecimal(n, b) ==
    LET narrow == n = TwoTo52 /\ b > -1074
        even == ~IsOdd(n)
        u == b - 2
        scale(a) == IF u >= 0 THEN TimesPow2(a, u) ELSE TimesPow5(a, -u)
    IN  Only({ Only({ Only({
            LET len == Len(hi)
                c == Zeros(len - Len(c0)) \o c0
                lo == Zeros(len - Len(lo0)) \o lo0
                floorIn(k) ==
                    LET fl == SubSeq(c, 1, k)
                        lp == SubSeq(lo, 1, k)
                    IN  \/ DigitsLess(lp, fl)
                        \/ fl = lp /\ even /\ AllZero(SubSeq(lo, k + 1, len))
                ceilIn(k) ==
                    LET ce == MulAdd(SubSeq(c, 1, k), 1, 1)
                        ce0 == Zeros(k - Len(ce)) \o ce
                        hp == SubSeq(hi, 1, k)
                    IN  /\ Len(ce) <= k
                        /\ \/ DigitsLess(ce0, hp)
                           \/ ce0 = hp /\ (even \/ ~AllZero(SubSeq(hi, k + 1, len)))
                k == CHOOSE k \in 1..len :
                        /\ floorIn(k) \/ ceilIn(k)
                        /\ \A j \in 1..(k - 1) : ~(floorIn(j) \/ ceilIn(j))
                fl == SubSeq(c, 1, k)
                h == CompareHalf(SubSeq(c, k + 1, len))
                up == IF ~floorIn(k) THEN TRUE
                      ELSE IF ~ceilIn(k) THEN FALSE
                      ELSE h > 0 \/ (h = 0 /\ IsOdd(fl))
                res == StripLeading(IF up THEN MulAdd(fl, 1, 1) ELSE fl)
            IN  <<StripTrailing(res), Len(res) + (len - k) + (IF u >= 0 THEN 0 ELSE u)>> :
            lo0 \in {scale(IF narrow THEN MulAdd(Decrement(n), 4, 3)
                           ELSE MulAdd(Decrement(n), 4, 2))} }) :
            c0 \in {scale(MulAdd(n, 4, 0))} }) :
            hi \in {scale(MulAdd(n, 4, 2))} })

\* The Number value of the decimal (-1)^neg * d * 10^x, d a sequence of
\* digits: the double nearest to it, ties to even, written by its shortest
\* decimal; an infinity beyond the largest double.  A decimal of at most
\* 15 significant digits between 1e-307 and 1e308 is the shortest decimal
\* of its own double.
NearestDouble(neg, d0, x) ==
    LET d == StripLeading(d0)
        z == StripTrailing(d)
        p == Len(d) + x
        sign == IF neg THEN -1 ELSE 1
        zero == [t |-> "number", v |-> <<0, <<>>, 0>>]
        inf == IF neg THEN NegInfinity ELSE Infinity
    IN  IF d = <<>> THEN zero
        ELSE IF Len(z) <= 15 /\ p >= -306 /\ p <= 308
             THEN [t |-> "number", v |-> <<sign, z, p>>]
        ELSE IF p > 309 THEN inf
        ELSE IF p < -324 THEN zero
        ELSE Only({ IF nb[1] = <<>> THEN zero
                    ELSE IF nb[2] > 971 THEN inf
                    ELSE Only({ [t |-> "number", v |-> <<sign, sd[1], sd[2]>>] :
                                sd \in {ShortestDecimal(nb[1], nb[2])} }) :
                    nb \in {DoubleParts(d, x)} })

----------------------------------------------------------------------------
(* parseFloat, continued                                                   *)

\* The literal whose integer digits are s[i1..i2-1] and whose fraction
\* digits, after a dot at i2, are s[i2+1..i3-1] (i3 = i2 without a dot).
ParseDigits(s, neg, i1, i2, i3) ==
    LET nInt == i2 - i1
        nFrac == IF i3 > i2 THEN i3 - (i2 + 1) ELSE 0
        d == [i \in 1..(nInt + nFrac) |->
                DigitVal(IF i <= nInt THEN s[i1 + i - 1] ELSE s[i2 + (i - nInt)])]
        end == IF nInt + nFrac > 0 THEN i3 ELSE i2
    IN  IF nInt + nFrac = 0 THEN NaN
        ELSE NearestDouble(neg, d, ParseExponent(s, end) - nFrac)

\* The literal that starts at s[i0]: [sign] Infinity, or
\* [sign] digits [. digits] [exponent].
ParseLiteral(s, i0) ==
    LET hasSign == i0 <= Len(s) /\ s[i0] \in {"+", "-"}
        neg == hasSign /\ s[i0] = "-"
    IN  Only({ IF /\ i1 + 7 <= Len(s)
                  /\ SubSeq(s, i1, i1 + 7) = <<"I", "n", "f", "i", "n", "i", "t", "y">>
               THEN (IF neg THEN NegInfinity ELSE Infinity)
               ELSE Only({ Only({ ParseDigits(s, neg, i1, i2, i3) :
                                  i3 \in {IF i2 <= Len(s) /\ s[i2] = "."
                                          THEN DigitsEnd(s, i2 + 1) ELSE i2} }) :
                           i2 \in {DigitsEnd(s, i1)} }) :
               i1 \in {IF hasSign THEN i0 + 1 ELSE i0} })

\* Number.parseFloat(x): the longest prefix of ToString(x), after leading
\* white space, that is a literal [sign] Infinity or [sign] digits
\* [. digits] [e [sign] digits]; NaN when there is none; the TypeError
\* that ToString(x) throws.
ParseFloat(x) ==
    IF ToPrimitiveThrows(x) THEN TypeError
    ELSE Only({ Only({ ParseLiteral(s, i0) : i0 \in {SkipWhiteSpace(s, 1)} }) :
                s \in {ToStr(x)} })

----------------------------------------------------------------------------
(* JSON.stringify                                                          *)

\* The JSON escape of one character of a string: the quote, the
\* backslash and the control characters below U+0020, five of which have a
\* short form and the rest \u00xx.
EscapeChar(c) ==
    LET cp == CodePoint(c)
    IN  CASE c = "\"" -> <<"\\", "\"">>
          [] c = "\\" -> <<"\\", "\\">>
          [] cp = 8 -> <<"\\", "b">>
          [] cp = 9 -> <<"\\", "t">>
          [] cp = 10 -> <<"\\", "n">>
          [] cp = 12 -> <<"\\", "f">>
          [] cp = 13 -> <<"\\", "r">>
          [] cp >= 0 /\ cp < 32 ->
                <<"\\", "u", "0", "0", LowerHex[(cp \div 16) + 1], LowerHex[(cp % 16) + 1]>>
          [] OTHER -> <<c>>

RECURSIVE EscapeFrom(_, _)
EscapeFrom(s, i) ==
    IF i > Len(s) THEN <<>> ELSE EscapeChar(s[i]) \o EscapeFrom(s, i + 1)

\* QuoteJSONString
Quote(s) == <<"\"">> \o EscapeFrom(s, 1) \o <<"\"">>

\* A property name that is an array index: the canonical decimal text of
\* an integer from 0 to 2^32 - 2.
IsArrayIndex(key) ==
    /\ Len(key) >= 1
    /\ \A i \in 1..Len(key) : IsDigit(key[i])
    /\ Len(key) = 1 \/ key[1] # "0"
    /\ \/ Len(key) < 10
       \/ /\ Len(key) = 10
          /\ DigitsAtLeast(<<"4", "2", "9", "4", "9", "6", "7", "2", "9", "4">>, key, 1)

\* a < b for two distinct array indices.
IndexLess(a, b) ==
    Len(a) < Len(b) \/ (Len(a) = Len(b) /\ ~DigitsAtLeast(a, b, 1))

\* The properties kvs[i], i in S, by ascending array index.
RECURSIVE IndexProps(_, _)
IndexProps(kvs, S) ==
    IF S = {} THEN <<>>
    ELSE LET i == CHOOSE i \in S : \A j \in S \ {i} : IndexLess(kvs[i][1], kvs[j][1])
         IN  <<kvs[i]>> \o IndexProps(kvs, S \ {i})

\* The property that is not named by an array index.
IsNamedProp(kv) == ~IsArrayIndex(kv[1])

\* OrdinaryOwnPropertyKeys: the properties named by an array index first,
\* by ascending index, then the others in the order they were added.
PropertyOrder(kvs) ==
    IndexProps(kvs, {i \in 1..Len(kvs) : IsArrayIndex(kvs[i][1])})
    \o SelectSeq(kvs, IsNamedProp)

\* The JSON text of a value other than undefined: no white space, the
\* properties of an object in property order, undefined properties left
\* out, undefined array elements, NaN and the infinities written as null.
RECURSIVE JSONText(_)
RECURSIVE JSONElems(_, _)
RECURSIVE JSONPropsFrom(_, _, _)
JSONElems(xs, i) ==
    IF i > Len(xs) THEN <<>>
    ELSE (IF i > 1 THEN <<",">> ELSE <<>>)
         \o (IF xs[i] = UNDEFINED THEN <<"n", "u", "l", "l">> ELSE JSONText(xs[i]))
         \o JSONElems(xs, i + 1)

\* The members for the properties ps[i..], already in property order.
JSONPropsFrom(ps, i, first) ==
    IF i > Len(ps) THEN <<>>
    ELSE IF ps[i][2] = UNDEFINED THEN JSONPropsFrom(ps, i + 1, first)
    ELSE (IF first THEN <<>> ELSE <<",">>)
         \o Quote(ps[i][1]) \o <<":">> \o JSONText(ps[i][2])
         \o JSONPropsFrom(ps, i + 1, FALSE)

\* The members of an object with properties kvs, from the i-th in property
\* order on.
JSONProps(kvs, i, first) == JSONPropsFrom(PropertyOrder(kvs), i, first)

JSONText(x) ==
    CASE x.t = "string" -> Quote(x.v)
      [] x.t = "number" -> NumToString(x.v)
      [] x.t = "NaN" -> <<"n", "u", "l", "l">>
      [] x.t = "Infinity" -> <<"n", "u", "l", "l">>
      [] x.t = "null" -> <<"n", "u", "l", "l">>
      [] x.t = "boolean" -> ToStr(x)
      [] x.t = "array" -> <<"[">> \o JSONElems(x.v, 1) \o <<"]">>
      [] OTHER -> <<"{">> \o JSONProps(x.v, 1, TRUE) \o <<"}">>

\* JSON.stringify(x): a string, or undefined for undefined.
JSON_stringify(x) == IF x = UNDEFINED THEN UNDEFINED ELSE JStr(JSONText(x))

\* obj.key for a parsed JSON value: the property's value, undefined when the
\* object has no such property or the value is a primitive or an array.
\* (null.key throws; callers test for null first.)
RECURSIVE GetFrom(_, _, _)
GetFrom(kvs, key, i) ==
    IF i > Len(kvs) THEN UNDEFINED
    ELSE IF kvs[i][1] = key THEN kvs[i][2]
    ELSE GetFrom(kvs, key, i + 1)

Get(x, key) == IF x.t = "object" THEN GetFrom(x.v, key, 1) ELSE UNDEFINED

----------------------------------------------------------------------------
(* encodeURIComponent                                                      *)

\* %XX for one octet.
EncodeByte(b) == <<"%", UpperHex[(b \div 16) + 1], UpperHex[(b % 16) + 1]>>

\* The characters encodeURIComponent leaves alone: letters, digits and
\* - _ . ! ~ * ' ( )
IsUnreserved(c) ==
    LET cp == CodePoint(c)
    IN  \/ cp \in 48..57 \/ cp \in 65..90 \/ cp \in 97..122
        \/ c \in {"-", "_", ".", "!", "~", "*", "'", "(", ")"}

\* One character: itself when unreserved, else the octets of its UTF-8
\* encoding, each as %XX.
EncodeChar(c) ==
    LET cp == CodePoint(c)
    IN  IF cp < 0 \/ IsUnreserved(c) THEN <<c>>
        ELSE IF cp < 128 THEN EncodeByte(cp)
        ELSE IF cp < 2048
             THEN EncodeByte(192 + (cp \div 64)) \o EncodeByte(128 + (cp % 64))
        ELSE EncodeByte(224 + (cp \div 4096))
             \o EncodeByte(128 + ((cp \div 64) % 64))
             \o EncodeByte(128 + (cp % 64))

RECURSIVE EncodeFrom(_, _)
EncodeFrom(s, i) ==
    IF i > Len(s) THEN <<>> ELSE EncodeChar(s[i]) \o EncodeFrom(s, i + 1)

\* encodeURIComponent(x): the encoding of ToString(x), or the TypeError
\* that conversion throws.
EncodeURIComponent(x) ==
    IF ToPrimitiveThrows(x) THEN TypeError ELSE EncodeFrom(ToStr(x), 1)

----------------------------------------------------------------------------
(* Input domains                                                           *)

\* The longest list of scopes a caller passes.
MaxScopes == 2

\* The two source files of the library.
Libs == {"part_000", "server-lib"}

ClientIds == {JStr(<<"app1">>), JStr(<<"app2">>)}
ClientSecrets == {JStr(<<"s3cret">>)}

Tokens == {UNDEFINED, JStr(<<>>), JStr(<<"tok">>)}
AuthorizationCodes == {UNDEFINED, JStr(<<>>), JStr(<<"c", "\"", "\r", "1">>)}
PaymentIds == {UNDEFINED, JStr(<<>>), JStr(<<"pay_1">>)}
Currencies == {UNDEFINED, JStr(<<"EUR">>)}
Descriptions == {UNDEFINED, JStr(<<"order">>)}
Metas == {UNDEFINED, JStr(<<"m1">>)}
ReturnUrls == {UNDEFINED, JStr(<<"https", ":", "/", "/", "shop", "/", "back">>)}
WebhookIds == {UNDEFINED, JStr(<<"wh_1">>)}
RedirectUris == {UNDEFINED, JStr(<<>>),
                 JStr(<<"https", ":", "/", "/", "shop", "?", "o", "=", "@", "1">>)}
Modes == {UNDEFINED, JStr(<<"establishment">>), JStr(<<"bogus">>)}
ServiceTypes == {UNDEFINED, JStr(<<"PAYMENTS">>)}

Amounts ==
    { UNDEFINED, NULL, JStr(<<>>), JStr(<<"a", "b", "c">>),
      JStr(<<"0", ".", "4", "9">>), JStr(<<"0", ".", "5">>),
      JStr(<<"0", ".", "5", "0">>), JStr(<<".", "5">>),
      JStr(<<"0">>), JStr(<<"0", ".", "0">>), JStr(<<"-", "1">>),
      JStr(<<"1">>), JStr(<<"1", "2", ".", "5", "E", "U", "R">>),
      JStr(<<"5", "e", "-", "1">>), JStr(<<"4", "e", "-", "1">>),
      JStr(<<"I", "n", "f", "i", "n", "i", "t", "y">>), JStr(<<"\r", "1">>),
      JStr(<<"0", ".", "4", "9", "9", "9", "9", "9", "9", "9", "9", "9", "9", "9", "9",
             "9", "9", "9", "9">>),
      JNum(49, 2), JNum(5, 1), JNum(0, 0), JNum(10, 0), JNum(-3, 0), JNum(1, 7) }

ScopeNames == {<<>>, <<"a">>, <<"b", "c">>}

\* All lists of at most n scope names.
RECURSIVE ScopeListsUpTo(_)
ScopeListsUpTo(n) ==
    IF n = 0 THEN {<<>>}
    ELSE LET shorter == ScopeListsUpTo(n - 1)
         IN  shorter \cup {Append(l, JStr(nm)) : l \in shorter, nm \in ScopeNames}

ScopeLists == ScopeListsUpTo(MaxScopes)

\* The scopes argument: left out, null, a number, a list, or the
\* comma-joined text of a list.
ScopesInputs ==
    {UNDEFINED, NULL, JNum(7, 0)}
    \cup {JArr(l) : l \in ScopeLists}
    \cup {JStr(JoinFrom(l, <<",">>, 1)) : l \in ScopeLists}

----------------------------------------------------------------------------
(* State                                                                   *)

VARIABLES
    lib,        \* which source file is loaded
    client,     \* the DaietsuAPI instance: _client_id, _client_secret, _sandbox
    pc,         \* where the call is: "idle"; "pending" (fetch in flight);
                \* "responded" (fetch fulfilled, r => r.json() queued);
                \* "reading" (r.json() in progress); "parsed" (the body is
                \* parsed, d => {...} queued); "failing" (a rejection is on
                \* its way to the .catch handler); "resuming" (the promise
                \* of _app_post / _app_get has settled, the continuation
                \* after the await is queued); "settled"; or "abandoned"
                \* (the executor threw, the promise stays pending)
    op,         \* the method called
    args,       \* its arguments as the caller passed them
    requests,   \* the fetch calls made on behalf of the call, in order
    response,   \* what the transport delivered to the pending call
    awaited,    \* the settlement of the promise of _app_post / _app_get
    outcome     \* how the call ended: [kind, value]

vars == <<lib, client, pc, op, args, requests, response, awaited, outcome>>

NoOutcome == [kind |-> "none", value |-> UNDEFINED]
NoResponse == [kind |-> "none", d |-> UNDEFINED]
Resolved(x) == [kind |-> "resolved", value |-> x]
Rejected(x) == [kind |-> "rejected", value |-> x]
Returned(x) == [kind |-> "returned", value |-> x]
Thrown(x) == [kind |-> "thrown", value |-> x]

\* The array of strings built by errors.push(code) for each code in turn.
ErrorList(codes) == JArr([i \in 1..Len(codes) |-> JStr(<<codes[i]>>)])

SANDBOX_API_HOST == JStr(<<"https://sandbox-api.daietsu.app/v1">>)
API_HOST == JStr(<<"https://api.daietsu.app/v1">>)

\* constructor (client_id, client_secret, sandbox = false)
Init ==
    /\ lib \in Libs
    /\ client \in [_client_id : ClientIds, _client_secret : ClientSecrets,
                   _sandbox : BOOLEAN]
    /\ pc = "idle"
    /\ op = "none"
    /\ args = <<>>
    /\ requests = <<>>
    /\ response = NoResponse
    /\ awaited = NoOutcome
    /\ outcome = NoOutcome

----------------------------------------------------------------------------
(* Transport primitives                                                    *)

\* A credential or a truthy token has no text: the concatenation throws.
AuthHeadersThrow(token) ==
    \/ Plus(Plus(client._client_id, JStr(<<":">>)), client._client_secret) = TypeError
    \/ Truthy(token) /\ Plus(JStr(<<"Bearer ">>), token) = TypeError

\* The X-API-Authentication header and, for a truthy token, Authorization;
\* the TypeError thrown when a credential or the token has no text.
AuthHeaders(token) ==
    LET auth == Plus(Plus(client._client_id, JStr(<<":">>)), client._client_secret)
        bearer == Plus(JStr(<<"Bearer ">>), token)
    IN  IF AuthHeadersThrow(token) THEN TypeError
        ELSE << <<"X-API-Authentication", auth>> >>
             \o (IF Truthy(token) THEN << <<"Authorization", bearer>> >> ELSE <<>>)

Host == IF client._sandbox THEN SANDBOX_API_HOST ELSE API_HOST

\* The fetch call of _app_post (endpoint, body = null, token = null).  The
\* arguments of fetch are evaluated inside the promise executor: when one
\* of them throws (host + endpoint for an endpoint that has no text, or a
\* header), fetch is not called and the promise is rejected with the
\* exception.
app_post_request(endpoint, body, token) ==
    IF ToPrimitiveThrows(endpoint) \/ AuthHeadersThrow(Default(token, NULL))
    THEN TypeError
    ELSE [ url |-> Plus(Host, endpoint),
           method |-> "POST",
           headers |-> << <<"Content-Type", JStr(<<"application/json">>)>> >>
                       \o AuthHeaders(Default(token, NULL)),
           body |-> IF Truthy(Default(body, NULL)) THEN JSON_stringify(body)
                    ELSE UNDEFINED ]

\* The fetch call of _app_get (endpoint, token = null), or the TypeError
\* thrown while its arguments are evaluated.
app_get_request(endpoint, token) ==
    IF ToPrimitiveThrows(endpoint) \/ AuthHeadersThrow(Default(token, NULL))
    THEN TypeError
    ELSE [ url |-> Plus(Host, endpoint),
           method |-> "POST",
           headers |-> AuthHeaders(Default(token, NULL)),
           body |-> UNDEFINED ]

\* What the transport can deliver: a network error (fetch rejects), a body
\* that is not JSON (r.json() rejects), or a parsed JSON value d.
ResultValues == {UNDEFINED, NULL, JStr(<<"R">>)}
ErrorValues == {UNDEFINED, JStr(<<>>), JStr(<<"E1">>), JStr(<<"REQUEST_ISSUE">>)}
ErrorsValues == {UNDEFINED, NULL, JArr(<<>>), JArr(<<JStr(<<"E1">>), JStr(<<"E2">>)>>),
                 JArr(<<JStr(<<"REQUEST_ISSUE">>)>>)}

\* A JSON object never holds undefined: a property drawn as undefined is
\* a property the body does not have.
Prop(key, x) == IF x = UNDEFINED THEN <<>> ELSE << <<key, x>> >>

JsonBodies ==
    {NULL, JStr(<<"ok">>), JArr(<<>>)}
    \cup {JObj(Prop(<<"result">>, r) \o Prop(<<"error">>, e) \o Prop(<<"errors">>, es)) :
            r \in ResultValues, e \in ErrorValues, es \in ErrorsValues}

Responses ==
    {[kind |-> "network_error", d |-> UNDEFINED], [kind |-> "not_json", d |-> UNDEFINED]}
    \cup {[kind |-> "json", d |-> d] : d \in JsonBodies}

\* d.error for a body d that is null: the handler throws.
NullDereference == [t |-> "TypeError", v |-> <<"Cannot read properties of null">>]

\* app_then preferring d.error to d.errors when a body carries both.
app_then_error_before_errors(d) ==
    IF d.t \in {"null", "undefined"} THEN Thrown(NullDereference)
    ELSE IF Truthy(Get(d, <<"error">>)) \/ Truthy(Get(d, <<"errors">>))
         THEN Rejected(IF Truthy(Get(d, <<"error">>)) THEN JArr(<<Get(d, <<"error">>)>>)
                       ELSE Get(d, <<"errors">>))
    ELSE Resolved(Get(d, <<"result">>))

\* The handler d => {...} of _app_post and _app_get, run on the parsed body
\* d: the resolve or reject it calls on the promise of _app_post /
\* _app_get, or the exception it throws.
app_then(d) ==
    IF d.t \in {"null", "undefined"} THEN Thrown(NullDereference)
    ELSE IF Truthy(Get(d, <<"error">>)) \/ Truthy(Get(d, <<"errors">>))
         THEN Rejected(IF Truthy(Get(d, <<"errors">>)) THEN Get(d, <<"errors">>)
                       ELSE JArr(<<Get(d, <<"error">>)>>))
    ELSE Resolved(Get(d, <<"result">>))

\* app_catch passing the caught exception on: reject(e).
app_catch_reject_exception(e) == Rejected(e)

\* The handler .catch(e => {...}) of _app_post and _app_get, run on the
\* exception e: reject(["REQUEST_ISSUE"]).
app_catch(e) == Rejected(ErrorList(<<"REQUEST_ISSUE">>))

\* The exception that reaches the .catch handler for response r: the
\* rejection of fetch, the rejection of r.json(), or the exception thrown
\* by the handler of the parsed body.
ChainException(r) ==
    IF r.kind = "json" THEN app_then(r.d).value
    ELSE [t |-> "Error", v |-> <<r.kind>>]

\* The promise chain .then(r => r.json()).then(d => ...).catch(e => ...)
\* of _app_post and _app_get as a whole: the settlement of the promise for
\* response r, once every handler of the chain has run.
app_settle(r) ==
    IF r.kind # "json" THEN app_catch(ChainException(r))
    ELSE IF app_then(r.d).kind = "thrown" THEN app_catch(ChainException(r))
    ELSE app_then(r.d)

----------------------------------------------------------------------------
(* Operations                                                              *)

\* list.includes(x) for a list of string literals
Includes(words, x) == x.t = "string" /\ x.v \in words

\* NormalizeScopes without the split of a string.
NormalizeScopes_no_split(scopes) == scopes

\* scopes = (typeof scopes == "string" ? scopes.split(",") : scopes)
NormalizeScopes(scopes) ==
    IF TypeofString(scopes) THEN Split(scopes.v, ",") ELSE scopes

\* The validation of create_authorization_url in part_000.
create_authorization_url_errors_part_000(redirect_uri, scopes) ==
    (IF ~Truthy(redirect_uri) THEN <<"MISSING_REDIRECT_URI">> ELSE <<>>)
    \o (IF ~IsArray(NormalizeScopes(scopes)) THEN <<"INVALID_SCOPES_FORMAT">> ELSE <<>>)

\* The validation of create_authorization_url in server-lib.js.
create_authorization_url_errors_server_lib(mode, redirect_uri, scopes, service_type) ==
    (IF ~Includes({<<"establishment">>, <<"area">>, <<"organisation">>, <<"service">>}, mode)
        THEN <<"INVALID_MODE">>
     ELSE IF mode.v = <<"service">>
             /\ ~Includes({<<"PAYMENTS">>, <<"CAPTIVE_PORTAL">>}, service_type)
        THEN <<"MISSING_SERVICE_TYPE">>
     ELSE <<>>)
    \o (IF ~Truthy(redirect_uri) THEN <<"MISSING_REDIRECT_URI">> ELSE <<>>)
    \o (IF ~IsArray(NormalizeScopes(scopes)) THEN <<"INVALID_SCOPES_FORMAT">> ELSE <<>>)

\* The template literal returned by create_authorization_url in part_000,
\* or the TypeError thrown by one of its conversions.
authorization_url_part_000(redirect_uri, scopes) ==
    LET a == ToStr(client._client_id)
        s == Join(NormalizeScopes(scopes), <<",">>)
        r == EncodeURIComponent(redirect_uri)
    IN  IF \/ ToPrimitiveThrows(client._client_id)
           \/ ToPrimitiveThrows(NormalizeScopes(scopes))
           \/ ToPrimitiveThrows(redirect_uri)
        THEN TypeError
        ELSE JStr(<<"https://manage.daietsu.app/authorize?a=">> \o a
                  \o <<"&m=establishment&s=">> \o s
                  \o <<"&r=">> \o r)

\* The string returned by create_authorization_url in server-lib.js, or
\* the TypeError thrown by one of its conversions.
authorization_url_server_lib(mode, redirect_uri, scopes, service_type) ==
    LET a == ToStr(client._client_id)
        m == ToStr(mode)
        s == Join(NormalizeScopes(scopes), <<",">>)
        r == EncodeURIComponent(redirect_uri)
        t == IF mode.v = <<"service">> THEN ToStr(service_type) ELSE <<>>
    IN  IF \/ ToPrimitiveThrows(client._client_id)
           \/ ToPrimitiveThrows(mode)
           \/ ToPrimitiveThrows(NormalizeScopes(scopes))
           \/ ToPrimitiveThrows(redirect_uri)
           \/ mode.v = <<"service">> /\ ToPrimitiveThrows(service_type)
        THEN TypeError
        ELSE JStr(<<"https://manage.daietsu.app/authorize?a=">> \o a
                  \o <<"&m=">> \o m
                  \o <<"&s=">> \o s
                  \o <<"&r=">> \o r
                  \o (IF mode.v = <<"service">> THEN <<"&t=">> \o t ELSE <<>>))

\* return reject(errors) outside any promise: reject is not bound, the
\* call throws a ReferenceError.
RejectIsNotDefined == [t |-> "ReferenceError", v |-> <<"reject is not defined">>]

\* create_authorization_url (redirect_uri = null, scopes = []) in part_000,
\* create_authorization_url (mode = "service", redirect_uri = null,
\* scopes = [], service_type = null) in server-lib.js.  Synchronous.
create_authorization_url ==
    /\ pc = "idle"
    /\ \E mode \in Modes, redirect_uri \in RedirectUris, scopes \in ScopesInputs,
       service_type \in ServiceTypes :
        LET m == Default(mode, JStr(<<"service">>))
            r == Default(redirect_uri, NULL)
            sc == Default(scopes, JArr(<<>>))
            st == Default(service_type, NULL)
            errors == IF lib = "part_000"
                      THEN create_authorization_url_errors_part_000(r, sc)
                      ELSE create_authorization_url_errors_server_lib(m, r, sc, st)
        IN  /\ lib = "part_000" => mode = UNDEFINED /\ service_type = UNDEFINED
            /\ op' = "create_authorization_url"
            /\ args' = [mode |-> mode, redirect_uri |-> redirect_uri,
                        scopes |-> scopes, service_type |-> service_type]
            /\ pc' = "settled"
            /\ IF Len(errors) > 0
               THEN outcome' = Thrown(RejectIsNotDefined)
               ELSE LET url == IF lib = "part_000"
                               THEN authorization_url_part_000(r, sc)
                               ELSE authorization_url_server_lib(m, r, sc, st)
                    IN  outcome' = IF url = TypeError THEN Thrown(TypeError)
                                   ELSE Returned(url)
            /\ UNCHANGED <<lib, client, requests, response, awaited>>

\* The validation of exchange_authorization_code.
exchange_authorization_code_errors(authorization_code, scopes) ==
    (IF ~Truthy(authorization_code) THEN <<"MISSING_AUTHORIZATION_CODE">> ELSE <<>>)
    \o (IF ~IsArray(NormalizeScopes(scopes)) THEN <<"INVALID_SCOPES_FORMAT">> ELSE <<>>)

\* {code: authorization_code, scopes: scopes.join(",")}, or the TypeError
\* thrown by the join.
exchange_authorization_code_body(authorization_code, scopes) ==
    LET s == Join(NormalizeScopes(scopes), <<",">>)
    IN  IF ToPrimitiveThrows(NormalizeScopes(scopes)) THEN TypeError
        ELSE JObj(<< <<<<"code">>, authorization_code>>, <<<<"scopes">>, JStr(s)>> >>)

\* return reject(errors) in the executor of an operation.
RejectNow(value) ==
    /\ pc' = "settled"
    /\ outcome' = Rejected(value)
    /\ UNCHANGED <<requests, awaited>>

\* The call of _app_post / _app_get inside try { await ... } catch (e)
\* { return reject(e) }.  _app_post / _app_get runs its executor at once:
\* the fetch is made and the call waits for it, or an exception thrown in
\* that executor rejects the promise of _app_post / _app_get with no fetch
\* made.  Either way the operation is suspended at the await: it goes on in
\* a later job.
Await(request) ==
    IF request = TypeError
    THEN /\ pc' = "resuming"
         /\ awaited' = Rejected(TypeError)
         /\ UNCHANGED <<requests, outcome>>
    ELSE /\ pc' = "pending"
         /\ requests' = Append(requests, request)
         /\ UNCHANGED <<awaited, outcome>>

\* exchange_authorization_code (authorization_code = null, scopes = []).
\* scopes.join(",") is evaluated inside the try block, before _app_post is
\* called: an exception there is passed to reject at once.
exchange_authorization_code ==
    /\ pc = "idle"
    /\ \E authorization_code \in AuthorizationCodes, scopes \in ScopesInputs :
        LET c == Default(authorization_code, NULL)
            sc == Default(scopes, JArr(<<>>))
            errors == exchange_authorization_code_errors(c, sc)
            body == exchange_authorization_code_body(c, sc)
        IN  /\ op' = "exchange_authorization_code"
            /\ args' = [authorization_code |-> authorization_code, scopes |-> scopes]
            /\ IF Len(errors) > 0 THEN RejectNow(ErrorList(errors))
               ELSE IF body = TypeError THEN RejectNow(TypeError)
               ELSE Await(app_post_request(JStr(<<"/auth/exchange">>), body, UNDEFINED))
            /\ UNCHANGED <<lib, client, response>>

\* get_authorized_establishment (token = null)
get_authorized_establishment ==
    /\ pc = "idle"
    /\ \E token \in Tokens :
        LET t == Default(token, NULL)
        IN  /\ op' = "get_authorized_establishment"
            /\ args' = [token |-> token]
            /\ IF ~Truthy(t) THEN RejectNow(ErrorList(<<"MISSING_TOKEN">>))
               ELSE Await(app_get_request(JStr(<<"/establishments/@current">>), UNDEFINED))
            /\ UNCHANGED <<lib, client, response>>

\* create_payment_errors stopping at the first failed check.
create_payment_errors_first_only(token, amount, currency, description) ==
    LET a == ParseFloat(amount)
    IN  IF a = TypeError THEN TypeError
        ELSE IF ~Truthy(token) THEN <<"MISSING_TOKEN">>
        ELSE IF ~Truthy(a) \/ a = NaN THEN <<"MISSING_AMOUNT">>
        ELSE IF LessThanHalf(a.v) THEN <<"MINIMUM_AMOUNT_ISSUE">>
        ELSE IF ~Truthy(currency) THEN <<"MISSING_CURRENCY">>
        ELSE IF ~Truthy(description) THEN <<"MISSING_DESCRIPTION">>
        ELSE <<>>

\* The validation of create_payment; amount is the caller's value.  The
\* TypeError is the exception Number.parseFloat(amount) throws.
create_payment_errors(token, amount, currency, description) ==
    LET a == ParseFloat(amount)
    IN  IF a = TypeError THEN TypeError
        ELSE
        (IF ~Truthy(token) THEN <<"MISSING_TOKEN">> ELSE <<>>)
        \o (IF ~Truthy(a) \/ a = NaN THEN <<"MISSING_AMOUNT">>
            ELSE IF LessThanHalf(a.v) THEN <<"MINIMUM_AMOUNT_ISSUE">>
            ELSE <<>>)
        \o (IF ~Truthy(currency) THEN <<"MISSING_CURRENCY">> ELSE <<>>)
        \o (IF ~Truthy(description) THEN <<"MISSING_DESCRIPTION">> ELSE <<>>)

\* The data object of create_payment in part_000: "data.return_url;" reads
\* the property and assigns nothing.
create_payment_data_part_000(amount, currency, description, meta, return_url, webhook) ==
    IF ParseFloat(amount) = TypeError THEN TypeError
    ELSE
    JObj(<< <<<<"amount">>, ParseFloat(amount)>>,
            <<<<"currency">>, currency>>,
            <<<<"description">>, description>> >>
         \o (IF Truthy(meta) THEN << <<<<"meta">>, meta>> >> ELSE <<>>)
         \o (IF Truthy(webhook) THEN << <<<<"webhook">>, webhook>> >> ELSE <<>>))

\* The data object of create_payment in server-lib.js, which has no
\* webhook parameter.
create_payment_data_server_lib(amount, currency, description, meta, return_url) ==
    IF ParseFloat(amount) = TypeError THEN TypeError
    ELSE
    JObj(<< <<<<"amount">>, ParseFloat(amount)>>,
            <<<<"currency">>, currency>>,
            <<<<"description">>, description>> >>
         \o (IF Truthy(meta) THEN << <<<<"meta">>, meta>> >> ELSE <<>>)
         \o (IF Truthy(return_url) THEN << <<<<"return_url">>, return_url>> >> ELSE <<>>))

\* create_payment (token = null, amount = null, currency = null,
\* description = null, meta = null, return_url = null, webhook = null).
\* Number.parseFloat(amount) runs in the async executor before its try
\* block: an exception there rejects the promise of the executor, which
\* nobody holds, and leaves the promise of the call pending for ever.
create_payment ==
    /\ pc = "idle"
    /\ \E token \in Tokens, amount \in Amounts, currency \in Currencies,
       description \in Descriptions, meta \in Metas, return_url \in ReturnUrls,
       webhook \in WebhookIds :
        LET t == Default(token, NULL)
            a == Default(amount, NULL)
            cu == Default(currency, NULL)
            de == Default(description, NULL)
            me == Default(meta, NULL)
            ru == Default(return_url, NULL)
            wh == Default(webhook, NULL)
            errors == create_payment_errors(t, a, cu, de)
            data == IF lib = "part_000"
                    THEN create_payment_data_part_000(a, cu, de, me, ru, wh)
                    ELSE create_payment_data_server_lib(a, cu, de, me, ru)
        IN  /\ op' = "create_payment"
            /\ args' = [token |-> token, amount |-> amount, currency |-> currency,
                        description |-> description, meta |-> meta,
                        return_url |-> return_url, webhook |-> webhook]
            /\ IF ParseFloat(a) = TypeError
               THEN /\ pc' = "abandoned"
                    /\ UNCHANGED <<requests, awaited, outcome>>
               ELSE IF Len(errors) > 0 THEN RejectNow(ErrorList(errors))
               ELSE Await(app_post_request(JStr(<<"/payments">>), data, t))
            /\ UNCHANGED <<lib, client, response>>

\* The validation of get_payment.
get_payment_errors(token, payment_id) ==
    (IF ~Truthy(token) THEN <<"INVALID_TOKEN">> ELSE <<>>)
    \o (IF ~Truthy(payment_id) THEN <<"INVALID_PAYMENT_ID">> ELSE <<>>)

\* get_payment (token = null, payment_id = null).  "/payments/" +
\* payment_id is evaluated inside the try block, before _app_get is called:
\* an exception there is passed to reject at once.
get_payment ==
    /\ pc = "idle"
    /\ \E token \in Tokens, payment_id \in PaymentIds :
        LET t == Default(token, NULL)
            p == Default(payment_id, NULL)
            errors == get_payment_errors(t, p)
        IN  /\ op' = "get_payment"
            /\ args' = [token |-> token, payment_id |-> payment_id]
            /\ IF Len(errors) > 0 THEN RejectNow(ErrorList(errors))
               ELSE IF ToPrimitiveThrows(p) THEN RejectNow(TypeError)
               ELSE Await(app_get_request(Plus(JStr(<<"/payments/">>), p), t))
            /\ UNCHANGED <<lib, client, response>>

\* The steps below are the turns of the event loop that follow a fetch:
\* the transport settles the fetch or delivers the body, and the job queue
\* runs one handler of the promise chain, or the continuation of the
\* operation, at a time.  A rejection that passes a .then with no
\* rejection handler runs no code of the program: it is not a step.

\* FetchFails with one retry of the request before giving up.
FetchFails_retry_once ==
    /\ pc = "pending"
    /\ IF Len(requests) < 2
       THEN /\ requests' = Append(requests, requests[1])
            /\ UNCHANGED <<pc, response>>
       ELSE /\ response' = [kind |-> "network_error", d |-> UNDEFINED]
            /\ pc' = "failing"
            /\ UNCHANGED requests
    /\ UNCHANGED <<lib, client, op, args, awaited, outcome>>

\* The pending fetch rejects (network error): the rejection is on its way
\* to the .catch handler.
FetchFails ==
    /\ pc = "pending"
    /\ response' = [kind |-> "network_error", d |-> UNDEFINED]
    /\ pc' = "failing"
    /\ UNCHANGED <<lib, client, op, args, requests, awaited, outcome>>

\* The pending fetch is fulfilled with a response r, whose body has not been
\* read: the handler r => r.json() is queued.
FetchResponds ==
    /\ pc = "pending"
    /\ pc' = "responded"
    /\ UNCHANGED <<lib, client, op, args, requests, response, awaited, outcome>>

\* The handler r => r.json() runs: the body is being read.
ReadBody ==
    /\ pc = "responded"
    /\ pc' = "reading"
    /\ UNCHANGED <<lib, client, op, args, requests, response, awaited, outcome>>

\* r.json() settles: the body is JSON and the handler d => {...} is queued
\* with the parsed value d, or it is not and the rejection is on its way to
\* the .catch handler.
BodyParsed ==
    /\ pc = "reading"
    /\ \E r \in Responses :
        /\ r.kind # "network_error"
        /\ response' = r
        /\ pc' = IF r.kind = "json" THEN "parsed" ELSE "failing"
    /\ UNCHANGED <<lib, client, op, args, requests, awaited, outcome>>

\* The handler d => {...} runs on the parsed body: it settles the promise
\* of _app_post / _app_get, which queues the continuation of the operation,
\* or it throws and the exception is on its way to the .catch handler.
HandleBody ==
    /\ pc = "parsed"
    /\ IF app_then(response.d).kind = "thrown"
       THEN /\ pc' = "failing"
            /\ UNCHANGED awaited
       ELSE /\ pc' = "resuming"
            /\ awaited' = app_then(response.d)
    /\ UNCHANGED <<lib, client, op, args, requests, response, outcome>>

\* The handler .catch(e => {...}) runs: it rejects the promise of
\* _app_post / _app_get, which queues the continuation of the operation.
CatchHandler ==
    /\ pc = "failing"
    /\ awaited' = app_catch(ChainException(response))
    /\ pc' = "resuming"
    /\ UNCHANGED <<lib, client, op, args, requests, response, outcome>>

\* The continuation of the operation after its await: return
\* resolve(value), or return reject(e) from the catch block.
Resume ==
    /\ pc = "resuming"
    /\ outcome' = IF awaited.kind = "resolved" THEN Resolved(awaited.value)
                  ELSE Rejected(awaited.value)
    /\ pc' = "settled"
    /\ UNCHANGED <<lib, client, op, args, requests, response, awaited>>

----------------------------------------------------------------------------
(* Webhook verifier                                                        *)

\* crypto.createHash("sha512").update(s).digest("base64"): the digest of a
\* string, kept symbolic (distinct inputs give distinct digests).
Sha512Base64(s) == JStr(<<"sha512(">> \o s.v \o <<")=">>)

\* a == b for a string b that is not the text of a number: a string is
\* compared as such, an object or an array through its conversion to a
\* primitive, which may throw a TypeError, anything else differs.
LooseEquals(a, b) ==
    CASE a.t = "string" -> a.v = b.v
      [] a.t \in {"array", "object"} ->
            IF ToPrimitiveThrows(a) THEN TypeError ELSE ToStr(a) = b.v
      [] OTHER -> FALSE

\* validate_webhook_content throws: webhook_secret + ":" or
\* header == hashed_content converts a value that has no text.
validate_webhook_content_throws(header, content, webhook_secret) ==
    \/ ToPrimitiveThrows(webhook_secret)
    \/ header.t \in {"array", "object"} /\ ToPrimitiveThrows(header)

\* validate_webhook_content_result with the content always serialized.
validate_webhook_content_result_always_stringify(header, content, webhook_secret) ==
    LooseEquals(header,
                Sha512Base64(Plus(Plus(webhook_secret, JStr(<<":">>)),
                                  JSON_stringify(content))))

\* The value returned by validate_webhook_content, or the TypeError it
\* throws.
validate_webhook_content_result(header, content, webhook_secret) ==
    LET hashed_content ==
            Sha512Base64(Plus(Plus(webhook_secret, JStr(<<":">>)),
                              IF TypeofString(content) THEN content
                              ELSE JSON_stringify(content)))
    IN  IF validate_webhook_content_throws(header, content, webhook_secret)
        THEN TypeError
        ELSE LooseEquals(header, hashed_content)

WebhookSecrets == {JStr(<<"k">>), JStr(<<"k", ":">>)}

WebhookContents ==
    { JStr(<<>>), JStr(<<"a", "b", "c">>), JStr(<<"\"", "a", "b", "c", "\"">>),
      JStr(<<":", "a", "b", "c">>),
      JStr(<<"{", "\"", "a", "\"", ":", "1", "}">>),
      JObj(<< <<<<"a">>, JNum(1, 0)>>, <<<<"1">>, JNum(1, 7)>> >>),
      JObj(<< <<<<"id">>, JStr(<<"p", "\"", "1">>)>>, <<<<"amount">>, JNum(5, 1)>> >>),
      JArr(<<JStr(<<"a", "b", "c">>)>>), JNum(15, 1), JBool(TRUE), NULL }

\* The headers a request can carry: none, an empty one, the signing input
\* itself, and the digest a sender computes over either text of a content.
WebhookHeaders ==
    {UNDEFINED, JStr(<<>>)}
    \cup {JStr(s.v \o <<":">> \o ToStr(c)) : s \in WebhookSecrets, c \in WebhookContents}
    \cup {Sha512Base64(JStr(s.v \o <<":">> \o ToStr(c))) :
            s \in WebhookSecrets, c \in WebhookContents}
    \cup {Sha512Base64(JStr(s.v \o <<":">> \o JSONText(c))) :
            s \in WebhookSecrets, c \in WebhookContents}

\* validate_webhook_content (header, content, webhook_secret).  Synchronous.
validate_webhook_content ==
    /\ pc = "idle"
    /\ \E header \in WebhookHeaders, content \in WebhookContents,
          webhook_secret \in WebhookSecrets :
        /\ op' = "validate_webhook_content"
        /\ args' = [header |-> header, content |-> content,
                    webhook_secret |-> webhook_secret]
        /\ pc' = "settled"
        /\ outcome' = IF validate_webhook_content_throws(header, content, webhook_secret)
                       THEN Thrown(TypeError)
                       ELSE Returned(JBool(validate_webhook_content_result(
                                               header, content, webhook_secret)))
        /\ UNCHANGED <<lib, client, requests, response, awaited>>

----------------------------------------------------------------------------

Next ==
    \/ create_authorization_url
    \/ exchange_authorization_code
    \/ get_authorized_establishment
    \/ create_payment
    \/ get_payment
    \/ validate_webhook_content
    \/ FetchFails
    \/ FetchResponds
    \/ ReadBody
    \/ BodyParsed
    \/ HandleBody
    \/ CatchHandler
    \/ Resume

Spec == Init /\ [][Next]_vars

----------------------------------------------------------------------------
(* Concurrent calls on one client instance                                 *)

\* Several calls are started on the same DaietsuAPI instance before the
\* earlier ones have settled.  Each call has its own promise, its own
\* executor closure (errors, data, resolve, reject) and its own fetch, so in
\* this specification pc, op, args, requests, response, awaited and
\* outcome hold one value per call, and pc[c] takes the values pc takes for
\* a single call.  lib and client are the instance itself, which every call
\* reads and none writes.  Every turn of the event loop is a step of its
\* own, so the steps of one call interleave with those of the others at
\* every point where the code returns to the event loop.

MaxCalls == 2
Calls == 1..MaxCalls

\* The calls a caller makes: for each network operation one that passes
\* its validation and one that fails it.
ConcInvocations ==
    { <<"exchange_authorization_code",
        [authorization_code |-> JStr(<<"c", "\"", "1">>), scopes |-> UNDEFINED]>>,
      <<"exchange_authorization_code",
        [authorization_code |-> UNDEFINED, scopes |-> UNDEFINED]>>,
      <<"get_authorized_establishment", [token |-> JStr(<<"tok">>)]>>,
      <<"get_authorized_establishment", [token |-> UNDEFINED]>>,
      <<"create_payment",
        [token |-> JStr(<<"tok">>), amount |-> JNum(10, 0), currency |-> JStr(<<"EUR">>),
         description |-> JStr(<<"order">>), meta |-> UNDEFINED,
         return_url |-> UNDEFINED, webhook |-> UNDEFINED]>>,
      <<"create_payment",
        [token |-> JStr(<<"tok">>), amount |-> JNum(49, 2), currency |-> UNDEFINED,
         description |-> JStr(<<"order">>), meta |-> UNDEFINED,
         return_url |-> UNDEFINED, webhook |-> UNDEFINED]>>,
      <<"get_payment", [token |-> JStr(<<"tok">>), payment_id |-> JStr(<<"pay_1">>)]>>,
      <<"get_payment", [token |-> JStr(<<>>), payment_id |-> UNDEFINED]>> }

\* What the transport delivers to one fetch.
ConcResponses ==
    { [kind |-> "not_json", d |-> UNDEFINED],
      [kind |-> "json", d |-> JObj(<< <<<<"result">>, JStr(<<"R">>)>> >>)],
      [kind |-> "json", d |-> JObj(<< <<<<"error">>, JStr(<<"E1">>)>> >>)] }

\* The errors array of operation o called with arguments a, when the
\* validation at the head of its executor has run, or the TypeError that
\* stopped it.
CallErrors(o, a) ==
    CASE o = "exchange_authorization_code" ->
            exchange_authorization_code_errors(Default(a.authorization_code, NULL),
                                               Default(a.scopes, JArr(<<>>)))
      [] o = "get_authorized_establishment" ->
            IF ~Truthy(Default(a.token, NULL)) THEN <<"MISSING_TOKEN">> ELSE <<>>
      [] o = "create_payment" ->
            create_payment_errors(Default(a.token, NULL), Default(a.amount, NULL),
                                  Default(a.currency, NULL), Default(a.description, NULL))
      [] o = "get_payment" ->
            get_payment_errors(Default(a.token, NULL), Default(a.payment_id, NULL))

\* The fetch that operation o makes for arguments a that passed
\* validation, or the TypeError thrown before it.
CallRequest(o, a) ==
    CASE o = "exchange_authorization_code" ->
            app_post_request(JStr(<<"/auth/exchange">>),
                exchange_authorization_code_body(Default(a.authorization_code, NULL),
                                                 Default(a.scopes, JArr(<<>>))),
                UNDEFINED)
      [] o = "get_authorized_establishment" ->
            app_get_request(JStr(<<"/establishments/@current">>), UNDEFINED)
      [] o = "create_payment" ->
            app_post_request(JStr(<<"/payments">>),
                IF lib = "part_000"
                THEN create_payment_data_part_000(
                         Default(a.amount, NULL), Default(a.currency, NULL),
                         Default(a.description, NULL), Default(a.meta, NULL),
                         Default(a.return_url, NULL), Default(a.webhook, NULL))
                ELSE create_payment_data_server_lib(
                         Default(a.amount, NULL), Default(a.currency, NULL),
                         Default(a.description, NULL), Default(a.meta, NULL),
                         Default(a.return_url, NULL)),
                Default(a.token, NULL))
      [] o = "get_payment" ->
            app_get_request(Plus(JStr(<<"/payments/">>), Default(a.payment_id, NULL)),
                            Default(a.token, NULL))

\* The argument of _app_post / _app_get that operation o evaluates inside
\* its try block throws: the catch block rejects before any call is made.
CallThrowsInTry(o, a) ==
    CASE o = "exchange_authorization_code" ->
            exchange_authorization_code_body(Default(a.authorization_code, NULL),
                                             Default(a.scopes, JArr(<<>>))) = TypeError
      [] o = "get_payment" ->
            Plus(JStr(<<"/payments/">>), Default(a.payment_id, NULL)) = TypeError
      [] OTHER -> FALSE

\* Operation o throws in its executor before the try block.
CallAbandons(o, a) ==
    o = "create_payment" /\ ParseFloat(Default(a.amount, NULL)) = TypeError

\* One instance, no call made yet.  Both files hold the same _app_post and
\* _app_get and, for the calls of ConcInvocations, executors that make the
\* same requests: one of them is loaded.
ConcInit ==
    /\ lib = "part_000"
    /\ client \in [_client_id : {JStr(<<"app1">>)}, _client_secret : ClientSecrets,
                   _sandbox : {FALSE}]
    /\ pc = [c \in Calls |-> "idle"]
    /\ op = [c \in Calls |-> "none"]
    /\ args = [c \in Calls |-> <<>>]
    /\ requests = [c \in Calls |-> <<>>]
    /\ response = [c \in Calls |-> NoResponse]
    /\ awaited = [c \in Calls |-> NoOutcome]
    /\ outcome = [c \in Calls |-> NoOutcome]

\* The caller invokes a network operation: new Promise runs the executor at
\* once, up to its first await.  Failed validation ends it in
\* return reject(errors); otherwise _app_post / _app_get calls fetch and the
\* executor is suspended at the await.  An exception before the try block
\* abandons the promise; one inside it rejects at once; one in the
\* executor of _app_post / _app_get rejects their promise without a fetch,
\* and the continuation after the await is queued.
ConcCall(c) ==
    /\ pc[c] = "idle"
    /\ \E inv \in ConcInvocations :
        LET errors == CallErrors(inv[1], inv[2])
        IN  /\ op' = [op EXCEPT ![c] = inv[1]]
            /\ args' = [args EXCEPT ![c] = inv[2]]
            /\ IF CallAbandons(inv[1], inv[2])
               THEN /\ pc' = [pc EXCEPT ![c] = "abandoned"]
                    /\ UNCHANGED <<requests, awaited, outcome>>
               ELSE IF Len(errors) > 0
               THEN /\ pc' = [pc EXCEPT ![c] = "settled"]
                    /\ outcome' = [outcome EXCEPT ![c] = Rejected(ErrorList(errors))]
                    /\ UNCHANGED <<requests, awaited>>
               ELSE IF CallThrowsInTry(inv[1], inv[2])
               THEN /\ pc' = [pc EXCEPT ![c] = "settled"]
                    /\ outcome' = [outcome EXCEPT ![c] = Rejected(TypeError)]
                    /\ UNCHANGED <<requests, awaited>>
               ELSE IF CallRequest(inv[1], inv[2]) = TypeError
               THEN /\ pc' = [pc EXCEPT ![c] = "resuming"]
                    /\ awaited' = [awaited EXCEPT ![c] = Rejected(TypeError)]
                    /\ UNCHANGED <<requests, outcome>>
               ELSE /\ pc' = [pc EXCEPT ![c] = "pending"]
                    /\ requests' = [requests EXCEPT
                                      ![c] = Append(@, CallRequest(inv[1], inv[2]))]
                    /\ UNCHANGED <<awaited, outcome>>
    /\ UNCHANGED <<lib, client, response>>

\* The fetch of call c rejects: the rejection is on its way to the .catch
\* handler of its own promise chain.
ConcFetchFails(c) ==
    /\ pc[c] = "pending"
    /\ response' = [response EXCEPT ![c] = [kind |-> "network_error", d |-> UNDEFINED]]
    /\ pc' = [pc EXCEPT ![c] = "failing"]
    /\ UNCHANGED <<lib, client, op, args, requests, awaited, outcome>>

\* The fetch of call c is fulfilled with a response whose body has not been
\* read: the handler r => r.json() of its own promise chain is queued.
ConcFetchResponds(c) ==
    /\ pc[c] = "pending"
    /\ pc' = [pc EXCEPT ![c] = "responded"]
    /\ UNCHANGED <<lib, client, op, args, requests, response, awaited, outcome>>

\* The handler r => r.json() of call c runs: the body is being read.
ConcReadBody(c) ==
    /\ pc[c] = "responded"
    /\ pc' = [pc EXCEPT ![c] = "reading"]
    /\ UNCHANGED <<lib, client, op, args, requests, response, awaited, outcome>>

\* r.json() of call c settles: the handler d => {...} is queued with the
\* parsed body, or the rejection is on its way to the .catch handler.
ConcBodyParsed(c) ==
    /\ pc[c] = "reading"
    /\ \E r \in ConcResponses :
        /\ response' = [response EXCEPT ![c] = r]
        /\ pc' = [pc EXCEPT ![c] = IF r.kind = "json" THEN "parsed" ELSE "failing"]
    /\ UNCHANGED <<lib, client, op, args, requests, awaited, outcome>>

\* ConcHandleBody where the handler settles whichever call is waiting, as
\* it would if resolve and reject were kept on the instance.
ConcHandleBody_shared_resolver(c) ==
    /\ pc[c] = "parsed"
    /\ \E w \in Calls :
        /\ pc[w] \in {"pending", "responded", "reading", "parsed", "failing"}
        /\ IF app_then(response[c].d).kind = "thrown"
           THEN /\ pc' = [pc EXCEPT ![c] = "failing"]
                /\ UNCHANGED awaited
           ELSE /\ pc' = [pc EXCEPT ![w] = "resuming"]
                /\ awaited' = [awaited EXCEPT ![w] = app_then(response[c].d)]
    /\ UNCHANGED <<lib, client, op, args, requests, response, outcome>>

\* The handler d => {...} of call c runs on the parsed body: it calls
\* resolve or reject of the promise that _app_post / _app_get made for c,
\* which queues the continuation of c, or it throws and the exception is on
\* its way to the .catch handler.
ConcHandleBody(c) ==
    /\ pc[c] = "parsed"
    /\ IF app_then(response[c].d).kind = "thrown"
       THEN /\ pc' = [pc EXCEPT ![c] = "failing"]
            /\ UNCHANGED awaited
       ELSE /\ pc' = [pc EXCEPT ![c] = "resuming"]
            /\ awaited' = [awaited EXCEPT ![c] = app_then(response[c].d)]
    /\ UNCHANGED <<lib, client, op, args, requests, response, outcome>>

\* The handler .catch(e => {...}) of call c runs: it calls reject of the
\* promise that _app_post / _app_get made for c, which queues the
\* continuation of c.
ConcCatchHandler(c) ==
    /\ pc[c] = "failing"
    /\ awaited' = [awaited EXCEPT ![c] = app_catch(ChainException(response[c]))]
    /\ pc' = [pc EXCEPT ![c] = "resuming"]
    /\ UNCHANGED <<lib, client, op, args, requests, response, outcome>>

\* The continuation of call c after its await: return resolve(value), or
\* return reject(e) from the catch block.
ConcResume(c) ==
    /\ pc[c] = "resuming"
    /\ outcome' = [outcome EXCEPT
                     ![c] = IF awaited[c].kind = "resolved"
                            THEN Resolved(awaited[c].value)
                            ELSE Rejected(awaited[c].value)]
    /\ pc' = [pc EXCEPT ![c] = "settled"]
    /\ UNCHANGED <<lib, client, op, args, requests, response, awaited>>

ConcNext ==
    \E c \in Calls :
        \/ ConcCall(c)
        \/ ConcFetchFails(c)
        \/ ConcFetchResponds(c)
        \/ ConcReadBody(c)
        \/ ConcBodyParsed(c)
        \/ ConcHandleBody(c)
        \/ ConcCatchHandler(c)
        \/ ConcResume(c)

\* The transport answers or fails every fetch and delivers every body in
\* the end, and the job queue runs every queued handler and continuation.
ConcFairness ==
    \A c \in Calls :
        /\ WF_vars(ConcFetchFails(c) \/ ConcFetchResponds(c) \/ ConcBodyParsed(c))
        /\ WF_vars(ConcReadBody(c) \/ ConcHandleBody(c) \/ ConcCatchHandler(c)
                   \/ ConcResume(c))

SpecConc == ConcInit /\ [][ConcNext]_vars /\ ConcFairness

----------------------------------------------------------------------------
(* Properties                                                              *)

\* C1: validate_webhook_content(H, P, S) returns true if and only if H is
\* the base64 SHA-512 digest of S + ":" + canonical(P), where canonical(P)
\* is P itself for a string and its JSON text otherwise.
C1_WebhookTrueIffDigest ==
    (op = "validate_webhook_content" /\ pc = "settled") =>
        LET canonical == IF args.content.t = "string" THEN args.content.v
                         ELSE JSONText(args.content)
            digest == Sha512Base64(JStr(args.webhook_secret.v \o <<":">> \o canonical))
        IN  outcome = Returned(JBool(args.header = digest))

\* A webhook with an object payload was accepted.
C1_Witness ==
    /\ op = "validate_webhook_content"
    /\ pc = "settled"
    /\ args.content.t = "object"
    /\ outcome = Returned(JBool(TRUE))

\* C2: a call of one of the four network operations issues no request
\* when its arguments fail validation, exactly one when they pass, and
\* never more than one, whatever the response or transport failure.
C2_AtMostOneRequest ==
    LET a(x) == Default(x, NULL)
        amount == ParseFloat(a(args.amount))
        valid ==
            CASE op = "exchange_authorization_code" ->
                    /\ Truthy(a(args.authorization_code))
                    /\ Default(args.scopes, JArr(<<>>)).t \in {"string", "array"}
              [] op = "get_authorized_establishment" -> Truthy(a(args.token))
              [] op = "create_payment" ->
                    /\ Truthy(a(args.token))
                    /\ amount.t \in {"number", "Infinity"} /\ ~LessThanHalf(amount.v)
                    /\ Truthy(a(args.currency))
                    /\ Truthy(a(args.description))
              [] op = "get_payment" ->
                    Truthy(a(args.token)) /\ Truthy(a(args.payment_id))
    IN  /\ Len(requests) <= 1
        /\ op \in {"exchange_authorization_code", "get_authorized_establishment",
                   "create_payment", "get_payment"}
           => Len(requests) = (IF valid THEN 1 ELSE 0)

\* A create_payment call failed on the network after its one request.
C2_Witness ==
    /\ op = "create_payment"
    /\ pc = "settled"
    /\ response.kind = "network_error"
    /\ Len(requests) = 1

\* C3: a call that fails validation is rejected with the list of the codes
\* of all failed checks, each once, in check order: token, amount (one of
\* MISSING_AMOUNT and MINIMUM_AMOUNT_ISSUE), currency, description for
\* create_payment; the token code then the payment_id code for get_payment.
C3_AllErrorCodesInCheckOrder ==
    LET a(x) == Default(x, NULL)
        code(failed, c) == IF failed THEN <<c>> ELSE <<>>
        amount == ParseFloat(a(args.amount))
        amountOk == amount.t \in {"number", "Infinity"} /\ ~LessThanHalf(amount.v)
    IN  (pc = "settled" /\ response.kind = "none") =>
        CASE op = "create_payment" ->
                \E amountCode \in {"MISSING_AMOUNT", "MINIMUM_AMOUNT_ISSUE"} :
                    outcome = Rejected(ErrorList(
                        code(~Truthy(a(args.token)), "MISSING_TOKEN")
                        \o code(~amountOk, amountCode)
                        \o code(~Truthy(a(args.currency)), "MISSING_CURRENCY")
                        \o code(~Truthy(a(args.description)), "MISSING_DESCRIPTION")))
          [] op = "get_payment" ->
                outcome = Rejected(ErrorList(
                    code(~Truthy(a(args.token)), "INVALID_TOKEN")
                    \o code(~Truthy(a(args.payment_id)), "INVALID_PAYMENT_ID")))
          [] OTHER -> TRUE

\* A create_payment call failed all four of its checks.
C3_Witness ==
    /\ op = "create_payment"
    /\ pc = "settled"
    /\ outcome = Rejected(ErrorList(<<"MISSING_TOKEN", "MINIMUM_AMOUNT_ISSUE",
                                      "MISSING_CURRENCY", "MISSING_DESCRIPTION">>))

\* C4: create_authorization_url called with a missing redirect_uri, or
\* with scopes that do not end up as a list, fails synchronously with the
\* ordered list of codes (MISSING_REDIRECT_URI, then INVALID_SCOPES_FORMAT)
\* and makes no network call; it returns a URL only when validation passes.
C4_AuthorizationUrlFailsWithCodes ==
    (op = "create_authorization_url" /\ pc = "settled") =>
        LET r == Default(args.redirect_uri, NULL)
            sc == Default(args.scopes, JArr(<<>>))
            m == Default(args.mode, JStr(<<"service">>))
            st == Default(args.service_type, NULL)
            modeOk == \/ lib = "part_000"
                      \/ /\ m.v \in {<<"establishment">>, <<"area">>, <<"organisation">>,
                                     <<"service">>}
                         /\ m.v = <<"service">> => st.t = "string"
                                                   /\ st.v \in {<<"PAYMENTS">>,
                                                                <<"CAPTIVE_PORTAL">>}
            codes == (IF ~Truthy(r) THEN <<"MISSING_REDIRECT_URI">> ELSE <<>>)
                     \o (IF sc.t \notin {"string", "array"}
                         THEN <<"INVALID_SCOPES_FORMAT">> ELSE <<>>)
        IN  /\ requests = <<>>
            /\ (modeOk /\ codes # <<>>) => outcome = Thrown(ErrorList(codes))
            /\ outcome.kind = "returned" => codes = <<>>

\* C5: every request carries X-API-Authentication: client_id:client_secret;
\* a request of an operation called with a non-empty token also carries
\* Authorization: Bearer <token>, and a request of an operation called
\* without a token carries no Authorization header.
C5_RequestsCarryCredentials ==
    \A i \in 1..Len(requests) :
        LET h == requests[i].headers
            header(name) == IF \E k \in 1..Len(h) : h[k][1] = name
                            THEN h[CHOOSE k \in 1..Len(h) : h[k][1] = name][2]
                            ELSE UNDEFINED
            token == IF op \in {"get_authorized_establishment", "create_payment",
                                "get_payment"}
                     THEN Default(args.token, NULL) ELSE NULL
        IN  /\ header("X-API-Authentication")
                 = JStr(client._client_id.v \o <<":">> \o client._client_secret.v)
            /\ header("Authorization")
                 = (IF Truthy(token) THEN JStr(<<"Bearer ">> \o token.v) ELSE UNDEFINED)

\* C6: an amount that parses as a number below 0.5 makes create_payment
\* fail with MINIMUM_AMOUNT_ISSUE and no network call; an amount that parses
\* as a number of at least 0.5 adds no amount code.
C6_AmountBelowHalfIsMinimumIssue ==
    (op = "create_payment" /\ pc # "idle") =>
        LET amount == ParseFloat(Default(args.amount, NULL))
            rejectedWith(c) == /\ outcome.kind = "rejected"
                               /\ outcome.value.t = "array"
                               /\ \E k \in 1..Len(outcome.value.v) :
                                      outcome.value.v[k] = JStr(<<c>>)
        IN  amount.t \in {"number", "Infinity"} =>
                IF LessThanHalf(amount.v)
                THEN /\ pc = "settled"
                     /\ requests = <<>>
                     /\ rejectedWith("MINIMUM_AMOUNT_ISSUE")
                ELSE response.kind = "none" =>
                        /\ ~rejectedWith("MISSING_AMOUNT")
                        /\ ~rejectedWith("MINIMUM_AMOUNT_ISSUE")

\* C7 as stated: on a JSON response with a result field and neither error
\* nor errors the call resolves with that result; on one with error or
\* errors the call fails with that error / errors content unchanged; a call
\* never both resolves and fails.  (A field counts as carried when it is
\* present and not null or empty.)
C7_ErrorContentUnchanged ==
    (pc = "settled" /\ response.kind = "json" /\ response.d.t = "object") =>
        LET d == response.d
            carries(k) == Truthy(Get(d, <<k>>))
        IN  /\ outcome.kind \in {"resolved", "rejected"}
            /\ (Get(d, <<"result">>) # UNDEFINED /\ ~carries("error") /\ ~carries("errors"))
                  => outcome = Resolved(Get(d, <<"result">>))
            /\ (carries("error") \/ carries("errors"))
                  => /\ outcome.kind = "rejected"
                     /\ \/ carries("error") /\ outcome.value = Get(d, <<"error">>)
                        \/ carries("errors") /\ outcome.value = Get(d, <<"errors">>)

\* C7, amended: on a JSON object that carries errors the call fails with
\* that errors value unchanged; on one that carries error and no errors it
\* fails with the one-element list [error]; on one that carries neither
\* (absent, null or empty) it resolves with the result field; never both.
C7_ErrorsOrWrappedError ==
    (pc = "settled" /\ response.kind = "json" /\ response.d.t = "object") =>
        LET e == Get(response.d, <<"error">>)
            es == Get(response.d, <<"errors">>)
        IN  /\ outcome.kind \in {"resolved", "rejected"}
            /\ Truthy(es) => outcome = Rejected(es)
            /\ (~Truthy(es) /\ Truthy(e)) => outcome = Rejected(JArr(<<e>>))
            /\ (~Truthy(es) /\ ~Truthy(e))
                  => outcome = Resolved(Get(response.d, <<"result">>))

\* A response carrying only error: "E1" rejected the call with ["E1"].
C7_Witness ==
    /\ pc = "settled"
    /\ response.kind = "json"
    /\ response.d = JObj(<< <<<<"error">>, JStr(<<"E1">>)>> >>)
    /\ outcome = Rejected(JArr(<<JStr(<<"E1">>)>>))

\* C8 as stated: a transport failure (network error or a body that is not
\* JSON) rejects the call with exactly [REQUEST_ISSUE], and only a
\* transport failure produces that value.
C8_RequestIssueOnlyFromTransport ==
    pc = "settled" =>
        /\ response.kind \in {"network_error", "not_json"}
              => outcome = Rejected(ErrorList(<<"REQUEST_ISSUE">>))
        /\ outcome = Rejected(ErrorList(<<"REQUEST_ISSUE">>))
              => response.kind \in {"network_error", "not_json"}

\* C8, amended: a transport failure rejects the call with exactly
\* [REQUEST_ISSUE]; a validation failure never produces that value; besides
\* transport failures it comes only from a JSON body that is null or from a
\* remote error content that is itself REQUEST_ISSUE.
C8_RequestIssueSources ==
    pc = "settled" =>
        /\ response.kind \in {"network_error", "not_json"}
              => outcome = Rejected(ErrorList(<<"REQUEST_ISSUE">>))
        /\ outcome = Rejected(ErrorList(<<"REQUEST_ISSUE">>))
              => /\ response.kind # "none"
                 /\ Len(requests) = 1
                 /\ \/ response.kind \in {"network_error", "not_json"}
                    \/ response.d = NULL
                    \/ Get(response.d, <<"errors">>) = ErrorList(<<"REQUEST_ISSUE">>)
                    \/ /\ ~Truthy(Get(response.d, <<"errors">>))
                       /\ Get(response.d, <<"error">>) = JStr(<<"REQUEST_ISSUE">>)

\* A body that is not JSON rejected a get_payment call with [REQUEST_ISSUE].
C8_Witness ==
    /\ op = "get_payment"
    /\ pc = "settled"
    /\ response.kind = "not_json"
    /\ outcome = Rejected(ErrorList(<<"REQUEST_ISSUE">>))

\* C9: the JSON body of a create_payment request holds amount, currency and
\* description, and each of meta, return_url and webhook with the caller's
\* value exactly when the caller supplied it.
C9_PaymentBodyHoldsSuppliedFields ==
    (op = "create_payment" /\ Len(requests) = 1) =>
        LET opt(k, x) == IF x = UNDEFINED THEN <<>> ELSE << <<<<k>>, x>> >>
            base == << <<<<"amount">>, ParseFloat(args.amount)>>,
                       <<<<"currency">>, args.currency>>,
                       <<<<"description">>, args.description>> >>
            m == opt("meta", args.meta)
            r == opt("return_url", args.return_url)
            w == opt("webhook", args.webhook)
        IN  requests[1].body \in
                { JSON_stringify(JObj(base \o p)) :
                    p \in { m \o r \o w, m \o w \o r, r \o m \o w,
                            r \o w \o m, w \o m \o r, w \o r \o m } }

\* C10: exchange_authorization_code called with the comma-joined text of a
\* list of scope names behaves as the call with the list: the same
\* validation outcome and the same request.
C10_ScopesTextSameAsList ==
    (op = "exchange_authorization_code" /\ pc # "idle") =>
        LET c == Default(args.authorization_code, NULL)
            \* the call made, and what the twin call (same code, the other
            \* form of the same scopes) does
            agrees(twin) ==
                LET errors == exchange_authorization_code_errors(c, twin)
                IN  IF requests = <<>>
                    THEN /\ errors # <<>>
                         /\ outcome = Rejected(ErrorList(errors))
                    ELSE /\ errors = <<>>
                         /\ requests = <<app_post_request(
                                JStr(<<"/auth/exchange">>),
                                exchange_authorization_code_body(c, twin), UNDEFINED)>>
        IN  /\ args.scopes.t = "array"
               => agrees(JStr(JoinFrom(args.scopes.v, <<",">>, 1)))
            /\ args.scopes.t = "string"
               => \A l \in ScopeLists :
                     JoinFrom(l, <<",">>, 1) = args.scopes.v => agrees(JArr(l))

\* An exchange call with scopes "a,bc" passed validation and sent its request.
C10_Witness ==
    /\ op = "exchange_authorization_code"
    /\ pc = "pending"
    /\ args.scopes = JStr(<<"a", ",", "b", "c">>)
    /\ Len(requests) = 1


\* Call c has settled: its promise is resolved or rejected.
C11_CallSettled(c) == pc[c] = "settled" /\ outcome[c].kind \in {"resolved", "rejected"}

\* C11: under any interleaving of concurrent calls on one instance, every
\* call settles exactly once.  A call whose validation failed is rejected
\* by the call itself, with no fetch made and no response awaited; a call
\* that passed validation has no outcome until the response or failure of
\* its own fetch has arrived; once settled, a call keeps its outcome; and
\* every call that is waiting on the transport settles in the end, given
\* that the transport answers or fails every fetch.
C11_EveryCallSettlesExactlyOnce ==
    /\ [](\A c \in Calls :
            /\ pc[c] # "settled" => outcome[c] = NoOutcome
            /\ pc[c] = "settled" => outcome[c].kind \in {"resolved", "rejected"}
            /\ (pc[c] # "idle" /\ Len(CallErrors(op[c], args[c])) > 0)
                 => /\ C11_CallSettled(c)
                    /\ outcome[c] = Rejected(ErrorList(CallErrors(op[c], args[c])))
                    /\ requests[c] = <<>>
                    /\ response[c] = NoResponse
            /\ (pc[c] # "idle" /\ Len(CallErrors(op[c], args[c])) = 0)
                 => /\ Len(requests[c]) = 1
                    /\ C11_CallSettled(c) => /\ response[c] # NoResponse
                                             /\ outcome[c] = app_settle(response[c]))
    /\ [][\A c \in Calls :
            /\ (pc[c] = "idle" /\ pc'[c] # "idle" /\ Len(CallErrors(op'[c], args'[c])) > 0)
                 => pc'[c] = "settled"
            /\ pc[c] = "settled" => (pc'[c] = "settled" /\ outcome'[c] = outcome[c])
            /\ response[c] # NoResponse => response'[c] = response[c]]_vars
    /\ \A c \in Calls : (pc[c] = "pending") ~> C11_CallSettled(c)

\* Two calls in flight at once whose responses arrive in the other order
\* than the calls were made in: one has settled on its own response while
\* the other, with its request sent, is still waiting.
C11_Witness ==
    \E c, w \in Calls :
        /\ c # w
        /\ pc[w] = "pending" /\ Len(requests[w]) = 1
        /\ C11_CallSettled(c)
        /\ Len(requests[c]) = 1
        /\ response[c].kind = "json"
        /\ outcome[c].kind = "resolved"

====
